---- MODULE Spec2Model ----
(***************************************************************************)
(* Model of core/dbt/task/remote.py: the ad-hoc statement handlers         *)
(* (_RPCExecTask: compile_sql / run_sql).  Two handler instances serve two *)
(* concurrent requests; they share the baseline manifest's macro dict and  *)
(* the adapter's open connections.  Each request has a coordinating thread *)
(* (handle_request) and at most one worker thread (_in_thread).            *)
(***************************************************************************)
EXTENDS Integers, Sequences, FiniteSets, TLC

VARIABLES
    baseMacros,     \* self._base_manifest.macros: dict unique_id -> body (shared)
    cancelable,     \* adapter.is_cancelable()
    conn,           \* adapter's connection of each worker: "none" | "open" | "cancelled" | "closed"
    cancelCalls,    \* number of adapter.cancel_open_connections() calls made by each request
    args,           \* self.args of each handler: [name, sql, macros]
    pc,             \* position of the coordinating thread in handle_request
    overrides,      \* macro_overrides of _get_exec_node
    node,           \* node returned by _get_exec_node
    manifest,       \* self.manifest: [macros, nodes]
    thread,         \* local variable thread: "None" | "created" | "started"
    thread_done,    \* threading.Event of the request
    wpc,            \* position of the worker thread in _in_thread
    node_results,   \* self.node_results
    raise_next_tick,\* self._raise_next_tick
    num_nodes,      \* self.num_nodes
    outcome,        \* what handle_request gave its caller: [kind, exc, results]
    responses,      \* number of times handle_request returned or raised
    spawned,        \* number of thread.start() calls of the request
    intrLog,        \* history: the positions at which KeyboardInterrupt was delivered
    ran,            \* history: what runner.safe_run did: "not_run" | "returned" | the exception
    lateWrites,     \* history: writes of the worker made after handle_request had ended
    timing,         \* started, ended, elapsed and generated_at of handle_request
    logged,         \* messages the interrupt handler has sent to logger.debug
    now,            \* datetime.utcnow(): the system's wall clock
    cli,            \* the cli_args handler (RemoteRPCParameters) and its target
    split           \* a call of _extract_request_data: its argument and its result

vars == <<baseMacros, cancelable, conn, cancelCalls, args, pc, overrides, node,
          manifest, thread, thread_done, wpc, node_results, raise_next_tick,
          num_nodes, outcome, responses, spawned, intrLog, ran, lateWrites,
          timing, logged, now, cli, split>>

\* what no step of an ad-hoc request touches
outside == <<now, cli, split>>

-----------------------------------------------------------------------------
(* Values *)

Requests == {"A", "B"}

None == "None"

\* signal.SIGINT, the argument of RPCKilledException
SIGINT == "SIGINT"

\* A top-level block of the request text, or the newline that joins two of them.
MacroBlock(n, good) == [type |-> "macro", name |-> n, ok |-> good]
SqlBlock(n, good) == [type |-> "sql", name |-> n, ok |-> good]
Newline == [type |-> "nl", name |-> "", ok |-> TRUE]

\* The baseline manifest as built at server start: one project macro.
BaseMacros0 == [u \in {"macro.m1"} |-> "base"]

\* The request texts the requests are drawn from (sql as sent, still encoded);
\* a macros parameter that is absent or empty is the empty text.
Encode(text) == [encoding |-> "base64", text |-> text]

SqlTexts ==
    { <<SqlBlock("", TRUE)>>,
      <<MacroBlock("m2", TRUE), SqlBlock("m2", TRUE)>>,
      <<SqlBlock("m2", TRUE)>>,
      <<SqlBlock("", FALSE)>>,
      <<MacroBlock("m2", FALSE), SqlBlock("", TRUE)>>,
      <<SqlBlock("ref:unknown", TRUE)>> }

Params ==
    { [name |-> "q1", sql |-> Encode(t), macros |-> <<>>] : t \in SqlTexts }
    \cup { [name |-> "q1", sql |-> Encode(<<SqlBlock("m2", TRUE)>>),
            macros |-> <<MacroBlock("m2", TRUE)>>] }

\* Exceptions the runner's safe_run can raise on its own.
RunExceptions == {"RuntimeException"}

Pending == [kind |-> "pending", exc |-> None, results |-> <<>>]
Raised(e) == [kind |-> "raise", exc |-> e, results |-> <<>>]
Envelope(rs) == [kind |-> "envelope", exc |-> None, results |-> rs]
Killed == Raised("RPCKilledException(" \o SIGINT \o ")")

-----------------------------------------------------------------------------
(* Pure helpers *)

\* RPCTask.decode_sql
decode_sql(data) == data.text

\* extract_toplevel_blocks: the text is kept as its sequence of blocks
extract_toplevel_blocks(text) == text

RECURSIVE SelectBlocks(_, _)
SelectBlocks(blocks, isMacro) ==
    IF blocks = <<>> THEN <<>>
    ELSE LET b == Head(blocks)
             rest == SelectBlocks(Tail(blocks), isMacro)
         IN IF (b.type = "macro") = isMacro THEN <<b>> \o rest ELSE rest

\* Mutant: the blocks are joined with nothing between them.
JoinNewline_noSeparator(blocks) == blocks

\* '\n'.join(blocks)
RECURSIVE JoinNewline(_)
JoinNewline(blocks) ==
    IF Len(blocks) <= 1 THEN blocks
    ELSE <<Head(blocks), Newline>> \o JoinNewline(Tail(blocks))

\* _extract_request_data: <<sql, macros>>
_extract_request_data(data) ==
    LET blocks == extract_toplevel_blocks(decode_sql(data))
    IN <<SelectBlocks(blocks, FALSE), JoinNewline(SelectBlocks(blocks, TRUE))>>

\* unique_id of a macro parsed from a request
MacroUid(n) == "macro." \o n

\* RPCMacroParser.parse_remote: the macro blocks of the text, in order
MacroNodes(text) == SelectSeq(text, LAMBDA b : b.type = "macro")

MacroTextOK(text) == \A i \in 1..Len(text) : text[i].ok

\* the loop of lines 95-96: later definitions overwrite earlier ones
RECURSIVE CollectOverrides(_, _)
CollectOverrides(nodes, acc) ==
    IF nodes = <<>> THEN acc
    ELSE LET n == Head(nodes)
             uid == MacroUid(n.name)
         IN CollectOverrides(Tail(nodes),
                [u \in DOMAIN acc \cup {uid} |-> IF u = uid THEN "request" ELSE acc[u]])

EmptyDict == [u \in {} |-> "none"]

\* dict.update
DictUpdate(d, other) ==
    [u \in DOMAIN d \cup DOMAIN other |-> IF u \in DOMAIN other THEN other[u] ELSE d[u]]

-----------------------------------------------------------------------------
(* State after construction: both handlers were built on the shared baseline *)
(* manifest and handle_request has been called on each.                      *)

\* What a handler instance holds before runtime_cleanup has run.
PriorBookkeeping ==
    { [results |-> <<>>, exc |-> None],
      [results |-> <<"stale">>, exc |-> "StaleException"] }

NoNode == [unique_id |-> None, calls |-> {}, refs |-> {}]

NoTiming == [started |-> 0, ended |-> 0, elapsed |-> 0, generated_at |-> 0]

\* no cli_args request has been received
NoArgs == [rpc_method |-> None, models |-> <<>>]

CliIdle ==
    [pc |-> "idle", cli |-> <<>>, args |-> NoArgs, i |-> 0, cls |-> None,
     constructed |-> 0, task_args |-> NoArgs, invoked |-> 0, target |-> None,
     outcome |-> None]

\* _extract_request_data has not been called
SplitIdle == [pc |-> "idle", data |-> Encode(<<>>), sql |-> <<>>, macros |-> <<>>]

\* the state of the two ad-hoc requests when handle_request is called
InitRequests ==
    /\ baseMacros = BaseMacros0
    /\ cancelable \in BOOLEAN
    /\ conn = [r \in Requests |-> "none"]
    /\ cancelCalls = [r \in Requests |-> 0]
    /\ args \in [Requests -> Params]
    /\ pc = [r \in Requests |-> "begin"]
    /\ overrides = [r \in Requests |-> EmptyDict]
    /\ node = [r \in Requests |-> NoNode]
    /\ manifest = [r \in Requests |-> [macros |-> BaseMacros0, nodes |-> {}]]
    /\ thread = [r \in Requests |-> None]
    /\ thread_done = [r \in Requests |-> FALSE]
    /\ wpc = [r \in Requests |-> "unstarted"]
    /\ \E prior \in [Requests -> PriorBookkeeping] :
          /\ node_results = [r \in Requests |-> prior[r].results]
          /\ raise_next_tick = [r \in Requests |-> prior[r].exc]
    /\ num_nodes = [r \in Requests |-> 0]
    /\ outcome = [r \in Requests |-> Pending]
    /\ responses = [r \in Requests |-> 0]
    /\ spawned = [r \in Requests |-> 0]
    /\ intrLog = [r \in Requests |-> <<>>]
    /\ ran = [r \in Requests |-> "not_run"]
    /\ lateWrites = [r \in Requests |-> 0]
    /\ timing = [r \in Requests |-> NoTiming]
    /\ logged = [r \in Requests |-> {}]

Init ==
    /\ InitRequests
    /\ now = 0
    /\ cli = CliIdle
    /\ split = SplitIdle

-----------------------------------------------------------------------------
(* The coordinating thread: handle_request *)

\* handle_request ends: it returns the envelope or raises, once.
Finish(r, out) ==
    /\ outcome' = [outcome EXCEPT ![r] = out]
    /\ responses' = [responses EXCEPT ![r] = @ + 1]
    /\ pc' = [pc EXCEPT ![r] = "done"]

Goto(r, label) ==
    /\ pc' = [pc EXCEPT ![r] = label]
    /\ UNCHANGED <<outcome, responses>>

\* lines 138-139: thread = None; started = utcnow()
Begin(r) ==
    /\ pc[r] = "begin"
    /\ thread' = [thread EXCEPT ![r] = None]
    /\ timing' = [timing EXCEPT ![r].started = now]
    /\ Goto(r, "get_exec_node")
    /\ UNCHANGED <<baseMacros, cancelable, conn, cancelCalls, args, overrides, node,
                   manifest, thread_done, wpc, node_results, raise_next_tick,
                   num_nodes, spawned, intrLog, ran, lateWrites, logged, outside>>

\* lines 88-96: split the request text, parse the macro blocks
ParseMacros(r) ==
    /\ pc[r] = "get_exec_node"
    /\ LET macros == _extract_request_data(args[r].sql)[2]
       IN IF macros # <<>> /\ ~MacroTextOK(macros)
          THEN /\ Finish(r, Raised("CompilationException:parse"))
               /\ UNCHANGED overrides
          ELSE /\ overrides' = [overrides EXCEPT ![r] =
                                   CollectOverrides(MacroNodes(macros), EmptyDict)]
               /\ Goto(r, "update_macros")
    /\ UNCHANGED <<baseMacros, cancelable, conn, cancelCalls, args, node,
                   manifest, thread, thread_done, wpc, node_results, raise_next_tick,
                   num_nodes, spawned, intrLog, ran, lateWrites, timing, logged, outside>>

\* line 98: self._base_manifest.macros.update(macro_overrides)
UpdatedBaseMacros(base, macro_overrides) == DictUpdate(base, macro_overrides)

UpdateMacros(r) ==
    /\ pc[r] = "update_macros"
    /\ baseMacros' = UpdatedBaseMacros(baseMacros, overrides[r])
    /\ Goto(r, "parse_sql")
    /\ UNCHANGED <<cancelable, conn, cancelCalls, args, overrides, node,
                   manifest, thread, thread_done, wpc, node_results, raise_next_tick,
                   num_nodes, spawned, intrLog, ran, lateWrites, timing, logged, outside>>

\* what the statement text calls and refers to
CalledMacros(sql) ==
    { MacroUid(sql[i].name) : i \in { j \in 1..Len(sql) : sql[j].name \in {"m1", "m2"} } }

Refs(sql) ==
    { sql[i].name : i \in { j \in 1..Len(sql) : sql[j].name \in {"ref:unknown"} } }

\* Mutant: the parser accepts any statement text and any macro call.
ParseSql_lenient(r) ==
    /\ pc[r] = "parse_sql"
    /\ LET sql == _extract_request_data(args[r].sql)[1]
       IN node' = [node EXCEPT ![r] =
                      [unique_id |-> "rpc." \o args[r].name,
                       calls |-> CalledMacros(sql), refs |-> Refs(sql)]]
    /\ Goto(r, "add_new_refs")
    /\ UNCHANGED <<baseMacros, cancelable, conn, cancelCalls, args, overrides,
                   manifest, thread, thread_done, wpc, node_results, raise_next_tick,
                   num_nodes, spawned, intrLog, ran, lateWrites, timing, logged, outside>>

\* lines 99-105: RPCCallParser(macro_manifest=self._base_manifest).parse_remote(sql, name)
ParseSql(r) ==
    /\ pc[r] = "parse_sql"
    /\ LET sql == _extract_request_data(args[r].sql)[1]
       IN IF \E i \in 1..Len(sql) : ~sql[i].ok
          THEN /\ Finish(r, Raised("CompilationException:parse"))
               /\ UNCHANGED node
          ELSE IF ~(CalledMacros(sql) \subseteq DOMAIN baseMacros)
          THEN /\ Finish(r, Raised("CompilationException:undefined"))
               /\ UNCHANGED node
          ELSE /\ node' = [node EXCEPT ![r] =
                              [unique_id |-> "rpc." \o args[r].name,
                               calls |-> CalledMacros(sql), refs |-> Refs(sql)]]
               /\ Goto(r, "add_new_refs")
    /\ UNCHANGED <<baseMacros, cancelable, conn, cancelCalls, args, overrides,
                   manifest, thread, thread_done, wpc, node_results, raise_next_tick,
                   num_nodes, spawned, intrLog, ran, lateWrites, timing, logged, outside>>

\* lines 106-114: ParserUtils.add_new_refs on a copy of the baseline manifest,
\* then compile_manifest(write=False)
AddNewRefs(r) ==
    /\ pc[r] = "add_new_refs"
    /\ IF node[r].refs # {}
       THEN /\ Finish(r, Raised("CompilationException:unresolved"))
            /\ UNCHANGED manifest
       ELSE /\ manifest' = [manifest EXCEPT ![r] =
                               [macros |-> DictUpdate(baseMacros, overrides[r]),
                                nodes |-> {node[r].unique_id}]]
            /\ Goto(r, "cleanup")
    /\ UNCHANGED <<baseMacros, cancelable, conn, cancelCalls, args, overrides, node,
                   thread, thread_done, wpc, node_results, raise_next_tick,
                   num_nodes, spawned, intrLog, ran, lateWrites, timing, logged, outside>>

\* Mutant: the cleanup keeps the results the handler already holds.
RuntimeCleanup_keepResults(r) ==
    /\ pc[r] = "cleanup"
    /\ num_nodes' = [num_nodes EXCEPT ![r] = Cardinality({node[r].unique_id})]
    /\ raise_next_tick' = [raise_next_tick EXCEPT ![r] = None]
    /\ Goto(r, "mk_thread")
    /\ UNCHANGED <<baseMacros, cancelable, conn, cancelCalls, args, overrides, node,
                   manifest, thread, thread_done, wpc, node_results, spawned, intrLog,
                   ran, lateWrites, timing, logged, outside>>

\* lines 143-144 and 64-72: runtime_cleanup([node.unique_id])
RuntimeCleanup(r) ==
    /\ pc[r] = "cleanup"
    /\ num_nodes' = [num_nodes EXCEPT ![r] = Cardinality({node[r].unique_id})]
    /\ node_results' = [node_results EXCEPT ![r] = <<>>]
    /\ raise_next_tick' = [raise_next_tick EXCEPT ![r] = None]
    /\ Goto(r, "mk_thread")
    /\ UNCHANGED <<baseMacros, cancelable, conn, cancelCalls, args, overrides, node,
                   manifest, thread, thread_done, wpc, spawned, intrLog, ran, lateWrites, timing, logged, outside>>

\* lines 146-148: thread_done = Event(); thread = Thread(...)
MakeThread(r) ==
    /\ pc[r] = "mk_thread"
    /\ thread_done' = [thread_done EXCEPT ![r] = FALSE]
    /\ thread' = [thread EXCEPT ![r] = "created"]
    /\ Goto(r, "thread_start")
    /\ UNCHANGED <<baseMacros, cancelable, conn, cancelCalls, args, overrides, node,
                   manifest, wpc, node_results, raise_next_tick,
                   num_nodes, spawned, intrLog, ran, lateWrites, timing, logged, outside>>

\* Mutant: the thread is created and never started.
ThreadStart_noStart(r) ==
    /\ pc[r] = "thread_start"
    /\ Goto(r, "wait")
    /\ UNCHANGED <<baseMacros, cancelable, conn, cancelCalls, args, overrides, node,
                   manifest, thread, thread_done, wpc, node_results, raise_next_tick,
                   num_nodes, spawned, intrLog, ran, lateWrites, timing, logged, outside>>

\* line 149: thread.start()
ThreadStart(r) ==
    /\ pc[r] = "thread_start"
    /\ thread' = [thread EXCEPT ![r] = "started"]
    /\ wpc' = [wpc EXCEPT ![r] = "get_runner"]
    /\ spawned' = [spawned EXCEPT ![r] = @ + 1]
    /\ Goto(r, "wait")
    /\ UNCHANGED <<baseMacros, cancelable, conn, cancelCalls, args, overrides, node,
                   manifest, thread_done, node_results, raise_next_tick,
                   num_nodes, intrLog, ran, lateWrites, timing, logged, outside>>

\* Mutant: the coordinating thread does not wait for the event.
ThreadDoneWait_noWait(r) == TRUE

\* line 150: thread_done.wait() returns once the event is set
ThreadDoneWait(r) == thread_done[r]

Wait(r) ==
    /\ pc[r] = "wait"
    /\ ThreadDoneWait(r)
    /\ Goto(r, "raise_set_error")
    /\ UNCHANGED <<baseMacros, cancelable, conn, cancelCalls, args, overrides, node,
                   manifest, thread, thread_done, wpc, node_results, raise_next_tick,
                   num_nodes, spawned, intrLog, ran, lateWrites, timing, logged, outside>>

\* Mutant: the pending exception is never re-raised.
RaiseSetError_swallow(r) ==
    /\ pc[r] = "raise_set_error"
    /\ Goto(r, "get_result")
    /\ UNCHANGED <<baseMacros, cancelable, conn, cancelCalls, args, overrides, node,
                   manifest, thread, thread_done, wpc, node_results, raise_next_tick,
                   num_nodes, spawned, intrLog, ran, lateWrites, timing, logged, outside>>

\* lines 168 and 117-119: _raise_set_error
RaiseSetError(r) ==
    /\ pc[r] = "raise_set_error"
    /\ IF raise_next_tick[r] # None
       THEN Finish(r, Raised(raise_next_tick[r]))
       ELSE Goto(r, "get_result")
    /\ UNCHANGED <<baseMacros, cancelable, conn, cancelCalls, args, overrides, node,
                   manifest, thread, thread_done, wpc, node_results, raise_next_tick,
                   num_nodes, spawned, intrLog, ran, lateWrites, timing, logged, outside>>

\* line 171: elapsed = (ended - started).total_seconds()
Elapsed(started, ended) == ended - started

\* lines 170-176: ended = utcnow(); get_result(results=self.node_results,
\* elapsed_time=elapsed, generated_at=ended)
GetResult(r) ==
    /\ pc[r] = "get_result"
    /\ LET ended == now
       IN timing' = [timing EXCEPT ![r] =
                        [started |-> @.started, ended |-> ended,
                         elapsed |-> Elapsed(@.started, ended),
                         generated_at |-> ended]]
    /\ Finish(r, Envelope(node_results[r]))
    /\ UNCHANGED <<baseMacros, cancelable, conn, cancelCalls, args, overrides, node,
                   manifest, thread, thread_done, wpc, node_results, raise_next_tick,
                   num_nodes, spawned, intrLog, ran, lateWrites, logged, outside>>

-----------------------------------------------------------------------------
(* The interrupt handler of handle_request, lines 151-166 *)

\* positions inside the try block of lines 140-150
TryBlock ==
    {"get_exec_node", "update_macros", "parse_sql", "add_new_refs", "cleanup",
     "mk_thread", "thread_start", "wait"}

\* positions of the except block of lines 151-166
ExceptBlock == {"except", "cancel", "join", "log", "raise_killed"}

\* KeyboardInterrupt is raised in the coordinating thread at its current
\* position: inside the try block it is caught by line 151, anywhere else in
\* handle_request it propagates to the caller as it is.
InterruptCaught(r) == pc[r] \in TryBlock

\* what the history keeps of a position: the except block is one place
Place(label) == IF label \in ExceptBlock THEN "handler" ELSE label

Interrupt(r) ==
    /\ pc[r] # "done"
    /\ intrLog' = [intrLog EXCEPT ![r] = Append(@, Place(pc[r]))]
    /\ IF InterruptCaught(r)
       THEN Goto(r, "except")
       ELSE Finish(r, Raised("KeyboardInterrupt"))
    /\ UNCHANGED <<baseMacros, cancelable, conn, cancelCalls, args, overrides, node,
                   manifest, thread, thread_done, wpc, node_results, raise_next_tick,
                   num_nodes, spawned, ran, lateWrites, timing, logged, outside>>

\* Mutant: the handler cancels whatever the adapter says of itself.
GetAdapter_ignoreFlag(r) ==
    /\ pc[r] = "except"
    /\ Goto(r, "cancel")
    /\ UNCHANGED <<baseMacros, cancelable, conn, cancelCalls, args, overrides, node,
                   manifest, thread, thread_done, wpc, node_results, raise_next_tick,
                   num_nodes, spawned, intrLog, ran, lateWrites, timing, logged, outside>>

\* lines 152-153: adapter = get_adapter(...); if adapter.is_cancelable()
IsCancelable == cancelable

GetAdapter(r) ==
    /\ pc[r] = "except"
    /\ Goto(r, IF IsCancelable THEN "cancel" ELSE "log")
    /\ UNCHANGED <<baseMacros, cancelable, conn, cancelCalls, args, overrides, node,
                   manifest, thread, thread_done, wpc, node_results, raise_next_tick,
                   num_nodes, spawned, intrLog, ran, lateWrites, timing, logged, outside>>

\* adapter.cancel_open_connections(): every open connection of the adapter
cancel_open_connections(c) ==
    [q \in Requests |-> IF c[q] = "open" THEN "cancelled" ELSE c[q]]

\* Mutant: the handler joins the worker without cancelling its query.
Cancel_noCall(r) ==
    /\ pc[r] = "cancel"
    /\ Goto(r, "join")
    /\ UNCHANGED <<baseMacros, cancelable, conn, cancelCalls, args, overrides, node,
                   manifest, thread, thread_done, wpc, node_results, raise_next_tick,
                   num_nodes, spawned, intrLog, ran, lateWrites, timing, logged, outside>>

\* lines 155-156
Cancel(r) ==
    /\ pc[r] = "cancel"
    /\ conn' = cancel_open_connections(conn)
    /\ cancelCalls' = [cancelCalls EXCEPT ![r] = @ + 1]
    /\ logged' = [logged EXCEPT ![r] =
                     IF \E q \in Requests : conn[q] = "open"
                     THEN @ \cup {"canceled query"} ELSE @]
    /\ Goto(r, "join")
    /\ UNCHANGED <<baseMacros, cancelable, args, overrides, node,
                   manifest, thread, thread_done, wpc, node_results, raise_next_tick,
                   num_nodes, spawned, intrLog, ran, lateWrites, timing, outside>>

\* Mutant: join returns at once, whatever the thread is doing.
ThreadJoined_noWait(r) == TRUE

\* Thread.join() returns once the thread has exited
ThreadJoined(r) == wpc[r] = "exited"

\* lines 157-158: if thread: thread.join()
Join(r) ==
    /\ pc[r] = "join"
    /\ IF thread[r] = None
       THEN Goto(r, "raise_killed")
       ELSE IF thread[r] = "created"
       THEN Finish(r, Raised("RuntimeError:join before start"))
       ELSE /\ ThreadJoined(r)
            /\ Goto(r, "raise_killed")
    /\ UNCHANGED <<baseMacros, cancelable, conn, cancelCalls, args, overrides, node,
                   manifest, thread, thread_done, wpc, node_results, raise_next_tick,
                   num_nodes, spawned, intrLog, ran, lateWrites, timing, logged, outside>>

\* lines 160-164: the adapter cannot cancel, say so in the log
LogUnsupported(r) ==
    /\ pc[r] = "log"
    /\ logged' = [logged EXCEPT ![r] = @ \cup {"cancellation unsupported"}]
    /\ Goto(r, "raise_killed")
    /\ UNCHANGED <<baseMacros, cancelable, conn, cancelCalls, args, overrides, node,
                   manifest, thread, thread_done, wpc, node_results, raise_next_tick,
                   num_nodes, spawned, intrLog, ran, lateWrites, timing, outside>>

\* line 166: raise RPCKilledException(signal.SIGINT)
RaiseKilled(r) ==
    /\ pc[r] = "raise_killed"
    /\ Finish(r, Killed)
    /\ UNCHANGED <<baseMacros, cancelable, conn, cancelCalls, args, overrides, node,
                   manifest, thread, thread_done, wpc, node_results, raise_next_tick,
                   num_nodes, spawned, intrLog, ran, lateWrites, timing, logged, outside>>

-----------------------------------------------------------------------------
(* The worker thread: _in_thread, lines 121-129 *)

\* Mutant: the worker sets the event before it runs the node.
GetRunner_signalsFirst(r) ==
    /\ wpc[r] = "get_runner"
    /\ wpc' = [wpc EXCEPT ![r] = "safe_run"]
    /\ conn' = [conn EXCEPT ![r] = "open"]
    /\ thread_done' = [thread_done EXCEPT ![r] = TRUE]
    /\ UNCHANGED <<baseMacros, cancelable, cancelCalls, args, pc, overrides, node,
                   manifest, thread, node_results, raise_next_tick,
                   num_nodes, outcome, responses, spawned, intrLog, ran, lateWrites, timing, logged, outside>>

\* line 122: runner = self.get_runner(node), outside the try statement
GetRunner(r) ==
    /\ wpc[r] = "get_runner"
    /\ \/ /\ wpc' = [wpc EXCEPT ![r] = "safe_run"]
          /\ conn' = [conn EXCEPT ![r] = "open"]
       \/ /\ wpc' = [wpc EXCEPT ![r] = "exited"]
          /\ UNCHANGED conn
    /\ UNCHANGED <<baseMacros, cancelable, cancelCalls, args, pc, overrides, node,
                   manifest, thread, thread_done, node_results, raise_next_tick,
                   num_nodes, outcome, responses, spawned, intrLog, ran, lateWrites, timing, logged, outside>>

\* what runner.safe_run can do: <<"return", result>> or <<"raise", exception>>
SafeRunOutcomes(c) ==
    IF c = "cancelled"
    THEN {<<"return", "error:cancelled">>, <<"raise", "QueryCancelled">>}
    ELSE {<<"return", "ok">>} \cup {<<"raise", e>> : e \in RunExceptions}

\* Mutant: a worker that finishes after the request has ended answers it itself.
SafeRun_reports(r) ==
    /\ wpc[r] = "safe_run"
    /\ node_results' = [node_results EXCEPT ![r] = Append(@, "ok")]
    /\ ran' = [ran EXCEPT ![r] = "returned"]
    /\ lateWrites' = [lateWrites EXCEPT ![r] = IF pc[r] = "done" THEN @ + 1 ELSE @]
    /\ conn' = [conn EXCEPT ![r] = "closed"]
    /\ wpc' = [wpc EXCEPT ![r] = "finally"]
    /\ IF pc[r] = "done"
       THEN /\ outcome' = [outcome EXCEPT ![r] = Envelope(node_results'[r])]
            /\ responses' = [responses EXCEPT ![r] = @ + 1]
       ELSE UNCHANGED <<outcome, responses>>
    /\ UNCHANGED <<baseMacros, cancelable, cancelCalls, args, pc, overrides, node,
                   manifest, thread, thread_done, raise_next_tick,
                   num_nodes, spawned, intrLog, timing, logged, outside>>

\* lines 123-127: append the result, or store the exception
SafeRun(r) ==
    /\ wpc[r] = "safe_run"
    /\ \E o \in SafeRunOutcomes(conn[r]) :
          /\ IF o[1] = "return"
             THEN /\ node_results' = [node_results EXCEPT ![r] = Append(@, o[2])]
                  /\ UNCHANGED raise_next_tick
             ELSE /\ raise_next_tick' = [raise_next_tick EXCEPT ![r] = o[2]]
                  /\ UNCHANGED node_results
          /\ ran' = [ran EXCEPT ![r] = IF o[1] = "return" THEN "returned" ELSE o[2]]
    /\ lateWrites' = [lateWrites EXCEPT ![r] = IF pc[r] = "done" THEN @ + 1 ELSE @]
    /\ conn' = [conn EXCEPT ![r] = "closed"]
    /\ wpc' = [wpc EXCEPT ![r] = "finally"]
    /\ UNCHANGED <<baseMacros, cancelable, cancelCalls, args, pc, overrides, node,
                   manifest, thread, thread_done,
                   num_nodes, outcome, responses, spawned, intrLog, timing, logged, outside>>

\* lines 128-129: finally: thread_done.set()
SetThreadDone(r) ==
    /\ wpc[r] = "finally"
    /\ thread_done' = [thread_done EXCEPT ![r] = TRUE]
    /\ wpc' = [wpc EXCEPT ![r] = "return"]
    /\ UNCHANGED <<baseMacros, cancelable, conn, cancelCalls, args, pc, overrides, node,
                   manifest, thread, node_results, raise_next_tick,
                   num_nodes, outcome, responses, spawned, intrLog, ran, lateWrites, timing, logged, outside>>

\* _in_thread returns and the thread exits
ThreadExit(r) ==
    /\ wpc[r] = "return"
    /\ wpc' = [wpc EXCEPT ![r] = "exited"]
    /\ UNCHANGED <<baseMacros, cancelable, conn, cancelCalls, args, pc, overrides, node,
                   manifest, thread, thread_done, node_results, raise_next_tick,
                   num_nodes, outcome, responses, spawned, intrLog, ran, lateWrites, timing, logged, outside>>

-----------------------------------------------------------------------------

Next ==
    \E r \in Requests :
        \/ Begin(r)
        \/ ParseMacros(r)
        \/ UpdateMacros(r)
        \/ ParseSql(r)
        \/ AddNewRefs(r)
        \/ RuntimeCleanup(r)
        \/ MakeThread(r)
        \/ ThreadStart(r)
        \/ Wait(r)
        \/ RaiseSetError(r)
        \/ GetResult(r)
        \/ Interrupt(r)
        \/ GetAdapter(r)
        \/ Cancel(r)
        \/ Join(r)
        \/ LogUnsupported(r)
        \/ RaiseKilled(r)
        \/ GetRunner(r)
        \/ SafeRun(r)
        \/ SetThreadDone(r)
        \/ ThreadExit(r)

Spec == Init /\ [][Next]_vars

-----------------------------------------------------------------------------
(* The wall clock read by datetime.utcnow() at lines 139 and 170.  It is the *)
(* system's time of day: it advances, and it can be set back (a clock        *)
(* adjustment) while a request runs.                                         *)

MaxClock == 1

\* everything but the clock
notClock ==
    <<baseMacros, cancelable, conn, cancelCalls, args, pc, overrides, node,
      manifest, thread, thread_done, wpc, node_results, raise_next_tick,
      num_nodes, outcome, responses, spawned, intrLog, ran, lateWrites,
      timing, logged, cli, split>>

ClockAdvance ==
    /\ now < MaxClock
    /\ now' = now + 1
    /\ UNCHANGED notClock

ClockSetBack ==
    /\ now > 0
    /\ now' = now - 1
    /\ UNCHANGED notClock

\* two requests for a plain statement, on handlers with clean bookkeeping
TimeInit ==
    /\ Init
    /\ \A r \in Requests :
          /\ args[r] = [name |-> "q1", sql |-> Encode(<<SqlBlock("", TRUE)>>),
                        macros |-> <<>>]
          /\ node_results[r] = <<>>

TimeNext ==
    \/ Next
    \/ ClockAdvance
    \/ ClockSetBack

TimeSpec == TimeInit /\ [][TimeNext]_vars

-----------------------------------------------------------------------------
(* The cli_args handler: RemoteRPCParameters, lines 280-306 *)

\* the two ad-hoc handlers at rest: plain statements, nothing scheduled
QuietRequests ==
    /\ InitRequests
    /\ ~cancelable
    /\ \A r \in Requests :
          /\ args[r] = [name |-> "q1", sql |-> Encode(<<SqlBlock("", TRUE)>>),
                        macros |-> <<>>]
          /\ node_results[r] = <<>>

\* everything but the cli_args handler
notCli ==
    <<baseMacros, cancelable, conn, cancelCalls, args, pc, overrides, node,
      manifest, thread, thread_done, wpc, node_results, raise_next_tick,
      num_nodes, outcome, responses, spawned, intrLog, ran, lateWrites,
      timing, logged, now, split>>

\* RPCTask.recursive_subclasses(): the handler types with a METHOD_NAME
HandlerTypes ==
    << [cls |-> "RemoteCompileTask", METHOD_NAME |-> "compile_sql"],
       [cls |-> "RemoteRunTask", METHOD_NAME |-> "run_sql"],
       [cls |-> "RemoteCompileProjectTask", METHOD_NAME |-> "compile"],
       [cls |-> "RemoteRunProjectTask", METHOD_NAME |-> "run"],
       [cls |-> "RemoteSeedProjectTask", METHOD_NAME |-> "seed"],
       [cls |-> "RemoteTestProjectTask", METHOD_NAME |-> "test"],
       [cls |-> "RemoteDocsGenerateProjectTask", METHOD_NAME |-> "docs.generate"],
       [cls |-> "RemoteRPCParameters", METHOD_NAME |-> "cli_args"] >>

\* shlex.split(params.cli) of the command lines a request may carry
CliLines ==
    { <<"run">>, <<"run", "--models", "my_model">>,
      <<"compile">>, <<"compile", "--models", "my_model">>,
      <<"seed">>, <<"test">>, <<"test", "--models", "my_model">>,
      <<"docs", "generate">>, <<"debug">>, <<"deps">> }

\* parse_args(split, RPCArgumentParser): the rpc_method of the command, None
\* for a command no RPC method serves, and the --models selection
ParsedMethod(tokens) ==
    IF Len(tokens) >= 2 /\ tokens[1] = "docs" /\ tokens[2] = "generate"
    THEN "docs.generate"
    ELSE IF tokens[1] \in {"run", "compile", "seed", "test"} THEN tokens[1]
    ELSE None

ParsedModels(tokens) ==
    IF \E i \in 1..Len(tokens) : tokens[i] = "--models"
    THEN LET i == CHOOSE j \in 1..Len(tokens) : tokens[j] = "--models"
         IN SubSeq(tokens, i + 1, Len(tokens))
    ELSE <<>>

parse_args(tokens) ==
    [rpc_method |-> ParsedMethod(tokens), models |-> ParsedModels(tokens)]

\* what the target handler's handle_request can do
TargetOutcomes == {"return:results", "raise:RuntimeException", "raise:RPCKilledException"}

CliInit ==
    /\ QuietRequests
    /\ now = 0
    /\ split = SplitIdle
    /\ \E line \in CliLines : cli = [CliIdle EXCEPT !.pc = "set_args", !.cli = line]

\* lines 283-287: set_args
CliSetArgs ==
    /\ cli.pc = "set_args"
    /\ cli' = [cli EXCEPT !.args = parse_args(cli.cli), !.i = 1, !.pc = "resolve"]
    /\ UNCHANGED notCli

\* lines 293-295: one candidate of the loop of get_rpc_task_cls
CliCandidate ==
    /\ cli.pc = "resolve"
    /\ cli.i <= Len(HandlerTypes)
    /\ IF HandlerTypes[cli.i].METHOD_NAME = cli.args.rpc_method
       THEN cli' = [cli EXCEPT !.cls = HandlerTypes[cli.i].cls, !.pc = "construct"]
       ELSE cli' = [cli EXCEPT !.i = @ + 1]
    /\ UNCHANGED notCli

\* Mutant: a method that matches no handler type falls back to the first type.
CliNoMatch_fallback ==
    /\ cli.pc = "resolve"
    /\ cli.i > Len(HandlerTypes)
    /\ cli' = [cli EXCEPT !.cls = HandlerTypes[1].cls, !.pc = "construct"]
    /\ UNCHANGED notCli

\* lines 296-300: no candidate matched, raise InternalException
CliNoMatch ==
    /\ cli.pc = "resolve"
    /\ cli.i > Len(HandlerTypes)
    /\ cli' = [cli EXCEPT !.outcome = "raise:InternalException", !.pc = "done"]
    /\ UNCHANGED notCli

\* line 305: task = cls(self.args, self.config, self.manifest)
CliConstruct ==
    /\ cli.pc = "construct"
    /\ cli' = [cli EXCEPT !.constructed = @ + 1, !.task_args = cli.args,
                          !.pc = "invoke"]
    /\ UNCHANGED notCli

\* line 306: task.handle_request() runs and returns or raises
CliInvoke ==
    /\ cli.pc = "invoke"
    /\ \E o \in TargetOutcomes :
          cli' = [cli EXCEPT !.invoked = @ + 1, !.target = o, !.pc = "return"]
    /\ UNCHANGED notCli

\* Mutant: the target's result is dropped and its failure swallowed.
CliReturn_dropped ==
    /\ cli.pc = "return"
    /\ cli' = [cli EXCEPT !.outcome = "return:None", !.pc = "done"]
    /\ UNCHANGED notCli

\* line 306: return task.handle_request()
CliReturn ==
    /\ cli.pc = "return"
    /\ cli' = [cli EXCEPT !.outcome = cli.target, !.pc = "done"]
    /\ UNCHANGED notCli

CliNext ==
    \/ CliSetArgs
    \/ CliCandidate
    \/ CliNoMatch
    \/ CliConstruct
    \/ CliInvoke
    \/ CliReturn

CliSpec == CliInit /\ [][CliNext]_vars

-----------------------------------------------------------------------------
(* _extract_request_data on its own: any text of a few top-level blocks *)

MaxBlocks == 3

BlockKinds ==
    { MacroBlock("m1", TRUE), MacroBlock("m2", TRUE),
      SqlBlock("", TRUE), SqlBlock("m2", TRUE) }

\* the texts of at most MaxBlocks top-level blocks
Texts == UNION { [1..k -> BlockKinds] : k \in 0..MaxBlocks }

\* everything but the call of _extract_request_data
notSplit ==
    <<baseMacros, cancelable, conn, cancelCalls, args, pc, overrides, node,
      manifest, thread, thread_done, wpc, node_results, raise_next_tick,
      num_nodes, outcome, responses, spawned, intrLog, ran, lateWrites,
      timing, logged, now, cli>>

SplitInit ==
    /\ QuietRequests
    /\ now = 0
    /\ cli = CliIdle
    /\ \E t \in Texts : split = [SplitIdle EXCEPT !.pc = "called", !.data = Encode(t)]

\* lines 74-85: return sql, macros
ExtractRequestData ==
    /\ split.pc = "called"
    /\ LET result == _extract_request_data(split.data)
       IN split' = [split EXCEPT !.sql = result[1], !.macros = result[2],
                                !.pc = "returned"]
    /\ UNCHANGED notSplit

SplitNext == ExtractRequestData

SplitSpec == SplitInit /\ [][SplitNext]_vars

-----------------------------------------------------------------------------
(* Properties *)

Done(r) == pc[r] = "done"

Other(r) == CHOOSE q \in Requests : q # r

\* errors raised by _get_exec_node
PrepErrors ==
    {"CompilationException:parse", "CompilationException:undefined",
     "CompilationException:unresolved"}

Malformed(a) ==
    LET blocks == decode_sql(a.sql) IN \E i \in 1..Len(blocks) : ~blocks[i].ok

\* C1: building the ephemeral context never mutates the baseline manifest's
\* macro collection: it always equals its value at server start.
C1_BaselineMacrosUnchanged == baseMacros = BaseMacros0

\* C2: with a cancelable adapter, a request interrupted (once) while its
\* coordinating thread waits on the completion signal ends with the killed
\* error carrying SIGINT, and has called cancel_open_connections by then.
C2_CancelableInterruptKilled ==
    \A r \in Requests :
        (cancelable /\ Done(r) /\ intrLog[r] = <<"wait">>)
            => (outcome[r] = Killed /\ cancelCalls[r] >= 1)

\* the interrupt found the worker running: its query was cancelled by this
\* request's own handler
C2_Witness ==
    \E r \in Requests :
        /\ cancelable /\ Done(r) /\ intrLog[r] = <<"wait">>
        /\ outcome[r] = Killed /\ cancelCalls[r] = 1
        /\ cancelCalls[Other(r)] = 0
        /\ ran[r] = "QueryCancelled"

\* C3: with a non-cancelable adapter cancel_open_connections is never called,
\* the interrupt handler never reaches the join and can always take its next
\* step whatever the worker does, and a request interrupted (once) inside the
\* try block ends with the killed error.
C3_NonCancelableNoWait ==
    \A r \in Requests :
        ~cancelable =>
            /\ cancelCalls[r] = 0
            /\ pc[r] \notin {"cancel", "join"}
            /\ pc[r] \in ExceptBlock =>
                   ENABLED (GetAdapter(r) \/ LogUnsupported(r) \/ RaiseKilled(r))
            /\ (Done(r) /\ Len(intrLog[r]) = 1 /\ intrLog[r][1] \in TryBlock)
                   => outcome[r] = Killed

\* the coordinator has ended with the killed error, the worker still runs
C3_Witness ==
    \E r \in Requests :
        /\ ~cancelable /\ Done(r) /\ intrLog[r] = <<"wait">>
        /\ outcome[r] = Killed
        /\ wpc[r] = "safe_run"

\* C4: an interrupt delivered at any point of handle_request makes the
\* request end with the killed error carrying SIGINT, never anything else.
C4_InterruptAlwaysKilled ==
    \A r \in Requests :
        (Done(r) /\ intrLog[r] # <<>>) => outcome[r] = Killed

\* C5: without an interrupt, an exception raised by the node's execution is
\* in the pending-exception slot once the worker has run and is what the
\* request fails with, no envelope being returned; if the execution returns,
\* the slot is empty and the envelope is returned.
C5_WorkerExceptionReraised ==
    \A r \in Requests :
        /\ (ran[r] \notin {"not_run", "returned"}) => raise_next_tick[r] = ran[r]
        /\ (ran[r] = "returned") => raise_next_tick[r] = None
        /\ (Done(r) /\ intrLog[r] = <<>> /\ ran[r] \notin {"not_run", "returned"})
               => outcome[r] = Raised(ran[r])
        /\ (Done(r) /\ intrLog[r] = <<>> /\ ran[r] = "returned")
               => (outcome[r].kind = "envelope" /\ outcome[r].exc = None)

C5_Witness ==
    \E r \in Requests :
        /\ Done(r) /\ intrLog[r] = <<>>
        /\ ran[r] = "RuntimeException"
        /\ outcome[r] = Raised("RuntimeException")

\* C6: a request that fails in _get_exec_node has never spawned a worker, and
\* an uninterrupted request with a malformed statement or macro, or with an
\* unresolved reference, fails with that error.
C6_PrepFailureNoWorker ==
    \A r \in Requests :
        /\ (outcome[r].exc \in PrepErrors)
               => (spawned[r] = 0 /\ thread[r] = None /\ wpc[r] = "unstarted")
        /\ (Done(r) /\ intrLog[r] = <<>> /\ Malformed(args[r]))
               => outcome[r] = Raised("CompilationException:parse")
        /\ (Done(r) /\ intrLog[r] = <<>> /\ ~Malformed(args[r])
                /\ Refs(decode_sql(args[r].sql)) # {})
               => outcome[r] = Raised("CompilationException:unresolved")

\* the statement calls a macro nobody defined
C6_Witness ==
    \E r \in Requests :
        /\ Done(r) /\ outcome[r] = Raised("CompilationException:undefined")
        /\ spawned[r] = 0
        /\ baseMacros = BaseMacros0

\* C7 as claimed: whenever handle_request has returned an envelope, the worker
\* thread has exited.
C7_EnvelopeWorkerExited ==
    \A r \in Requests : outcome[r].kind = "envelope" => wpc[r] = "exited"

\* C7 as amended: whenever handle_request has returned an envelope, the worker
\* has set the completion signal and left the body of _in_thread (the thread
\* itself may not have exited yet: the success path does not join it).
C7_EnvelopeWorkerSignalled ==
    \A r \in Requests :
        outcome[r].kind = "envelope"
            => (thread_done[r] /\ wpc[r] \in {"return", "exited"}
                /\ ran[r] # "not_run")

C7_Witness ==
    \E r \in Requests :
        /\ outcome[r].kind = "envelope" /\ intrLog[r] = <<>>
        /\ wpc[r] = "return"

\* positions before thread.start() has been called
BeforeStart ==
    {"begin", "get_exec_node", "update_macros", "parse_sql", "add_new_refs",
     "cleanup", "mk_thread", "thread_start"}

\* C8: a request never starts more than one worker, has started exactly one
\* once it is past thread.start(), and ends having started exactly one unless
\* _get_exec_node failed or an interrupt arrived before the start.
C8_ExactlyOneWorker ==
    \A r \in Requests :
        /\ spawned[r] <= 1
        /\ pc[r] \in {"wait", "raise_set_error", "get_result"} => spawned[r] = 1
        /\ (Done(r) /\ outcome[r].exc \notin PrepErrors
                /\ \A i \in 1..Len(intrLog[r]) : intrLog[r][i] \notin BeforeStart)
               => spawned[r] = 1

C8_Witness ==
    \E r \in Requests :
        /\ Done(r) /\ outcome[r].kind = "envelope"
        /\ spawned[r] = 1 /\ wpc[r] = "exited"

\* C9: a request is answered at most once, and once it is answered nothing,
\* the abandoned worker's later completion included, answers it again or
\* changes the outcome reported.
C9_AtMostOneResponse ==
    /\ [](\A r \in Requests : responses[r] <= 1)
    /\ [][\A r \in Requests :
             Done(r) => /\ outcome'[r] = outcome[r]
                        /\ responses'[r] = responses[r]
                        /\ Done(r)']_vars

\* the worker of a killed request completed after the request had ended
C9_Witness ==
    \E r \in Requests :
        /\ ~cancelable /\ Done(r) /\ outcome[r] = Killed /\ responses[r] = 1
        /\ lateWrites[r] = 1 /\ ran[r] = "returned"
        /\ node_results[r] = <<"ok">>

\* what a request can end with when it runs alone on the baseline manifest
\* and is not interrupted
IsolatedOutcomes(a) ==
    LET parts == _extract_request_data(a.sql)
        own == CollectOverrides(MacroNodes(parts[2]), EmptyDict)
    IN IF Malformed(a) THEN {Raised("CompilationException:parse")}
       ELSE IF ~(CalledMacros(parts[1]) \subseteq DOMAIN DictUpdate(BaseMacros0, own))
       THEN {Raised("CompilationException:undefined")}
       ELSE IF Refs(parts[1]) # {}
       THEN {Raised("CompilationException:unresolved")}
       ELSE {Envelope(<<"ok">>)} \cup {Raised(e) : e \in RunExceptions}

\* C10: with two concurrent requests, what an uninterrupted request ends with
\* is what it can end with alone: the other request's failure or interrupt
\* (its cancel_open_connections call included) never changes it.
C10_FailuresContained ==
    \A r \in Requests :
        (Done(r) /\ intrLog[r] = <<>>) => outcome[r] \in IsolatedOutcomes(args[r])

\* C11: a request that returns an envelope has selected one node, run it in
\* its one worker, and the envelope's results hold exactly the one entry of
\* that run, whatever results the handler held before handle_request.
C11_OneNodeOneResult ==
    \A r \in Requests :
        outcome[r].kind = "envelope"
            => /\ num_nodes[r] = 1
               /\ spawned[r] = 1 /\ ran[r] = "returned"
               /\ Len(outcome[r].results) = 1
               /\ outcome[r].results = node_results[r]

C11_Witness ==
    \E r \in Requests :
        /\ outcome[r] = Envelope(<<"ok">>) /\ intrLog[r] = <<>>
        /\ manifest[r].nodes = {"rpc.q1"}

\* unique ids of the macros a text defines
DefinedMacros(text) ==
    { MacroUid(text[i].name) : i \in { j \in 1..Len(text) : text[j].type = "macro" } }

\* C12: when the request's macros parameter is non-empty, the macros it
\* defines are among the overrides of the request and in the macro collection
\* of the request-scoped manifest the node is linked against.
C12_MacrosParamUsed ==
    \A r \in Requests :
        args[r].macros # <<>> =>
            /\ pc[r] \in {"update_macros", "parse_sql", "add_new_refs"}
                   => DefinedMacros(args[r].macros) \subseteq DOMAIN overrides[r]
            /\ manifest[r].nodes # {}
                   => DefinedMacros(args[r].macros) \subseteq DOMAIN manifest[r].macros

\* C13: in every envelope handle_request returns, the end timestamp is not
\* before the start timestamp, elapsed_time is end minus start and is not
\* negative, and generated_at is the end timestamp.
C13_ElapsedNonNegative ==
    \A r \in Requests :
        outcome[r].kind = "envelope"
            => /\ timing[r].ended >= timing[r].started
               /\ timing[r].elapsed = timing[r].ended - timing[r].started
               /\ timing[r].elapsed >= 0
               /\ timing[r].generated_at = timing[r].ended

\* the handler types whose declared method name is m
Registered(m) ==
    { HandlerTypes[i].cls : i \in { j \in 1..Len(HandlerTypes) :
                                      HandlerTypes[j].METHOD_NAME = m } }

\* C14: resolving a method name that matches no registered handler type
\* fails with the internal error, and no handler is constructed or run.
C14_UnknownMethodInternalError ==
    (cli.pc \notin {"idle", "set_args"} /\ Registered(cli.args.rpc_method) = {})
        => /\ cli.constructed = 0 /\ cli.invoked = 0 /\ cli.cls = None
           /\ cli.pc = "done" => cli.outcome = "raise:InternalException"

C14_Witness ==
    /\ cli.pc = "done" /\ cli.cli = <<"debug">>
    /\ cli.args.rpc_method = None
    /\ cli.outcome = "raise:InternalException"
    /\ cli.i = Len(HandlerTypes) + 1

\* C15: a cli_args request whose method is registered resolves to the one
\* handler type of that name, constructs it once with the parsed arguments,
\* invokes its handle_request once, and ends exactly as that call ended.
C15_CliDelegates ==
    /\ cli.constructed <= 1 /\ cli.invoked <= 1
    /\ (cli.pc = "done" /\ Registered(cli.args.rpc_method) # {})
           => /\ Registered(cli.args.rpc_method) = {cli.cls}
              /\ cli.constructed = 1 /\ cli.invoked = 1
              /\ cli.task_args = parse_args(cli.cli)
              /\ cli.target \in TargetOutcomes
              /\ cli.outcome = cli.target

C15_Witness ==
    /\ cli.pc = "done" /\ cli.cli = <<"run", "--models", "my_model">>
    /\ cli.cls = "RemoteRunProjectTask"
    /\ cli.task_args.models = <<"my_model">>
    /\ cli.outcome = "raise:RuntimeException"

\* C16: the splitter returns as macros text the macro blocks of the text in
\* source order with one newline between consecutive blocks (empty when the
\* text has no macro block), and as statement text the other blocks in source
\* order with nothing between them, however the two kinds are interleaved.
C16_SplitterCorrect ==
    split.pc = "returned" =>
        LET text == split.data.text
            M == SelectSeq(text, LAMBDA b : b.type = "macro")
            S == SelectSeq(text, LAMBDA b : b.type # "macro")
        IN /\ split.sql = S
           /\ Len(split.macros) = IF M = <<>> THEN 0 ELSE 2 * Len(M) - 1
           /\ \A i \in 1..Len(M) : split.macros[2 * i - 1] = M[i]
           /\ \A i \in 1..(Len(M) - 1) : split.macros[2 * i] = Newline

C16_Witness ==
    /\ split.pc = "returned"
    /\ split.data.text = <<MacroBlock("m1", TRUE), SqlBlock("", TRUE), MacroBlock("m2", TRUE)>>
    /\ split.macros = <<MacroBlock("m1", TRUE), Newline, MacroBlock("m2", TRUE)>>
    /\ split.sql = <<SqlBlock("", TRUE)>>

\* C17: with a cancelable adapter the interrupt handler calls
\* cancel_open_connections before it reaches thread.join(), and when a worker
\* was started the killed error is raised only once that worker has exited.
C17_CancelThenJoinThenKilled ==
    \A r \in Requests :
        cancelable =>
            /\ pc[r] \in {"join", "raise_killed"} => cancelCalls[r] = 1
            /\ (spawned[r] = 1 /\ (pc[r] = "raise_killed" \/ outcome[r] = Killed))
                   => (wpc[r] = "exited" /\ cancelCalls[r] = 1)

\* the worker saw its query cancelled, returned the error result and exited
\* before the killed error was raised
C17_Witness ==
    \E r \in Requests :
        /\ cancelable /\ outcome[r] = Killed /\ spawned[r] = 1
        /\ cancelCalls[r] = 1 /\ wpc[r] = "exited"
        /\ node_results[r] = <<"error:cancelled">>

\* the worker of r has been started and has not yet set the event
WorkerCanWrite(r) == wpc[r] \in {"get_runner", "safe_run", "finally"} /\ ~thread_done[r]

\* C18: while the worker has started and not yet set the completion signal,
\* the result list and the pending-exception slot change only in a step of the
\* worker, and the coordinating thread is at one of its reads of them
\* (_raise_set_error, get_result) only after the signal was set.
C18_BookkeepingHandedOver ==
    /\ [](\A r \in Requests :
             pc[r] \in {"raise_set_error", "get_result"}
                 => (thread_done[r] /\ ~WorkerCanWrite(r)
                        /\ wpc[r] \in {"return", "exited"}))
    /\ [][\A r \in Requests :
             (WorkerCanWrite(r)
                 /\ (node_results'[r] # node_results[r]
                        \/ raise_next_tick'[r] # raise_next_tick[r]))
                 => (wpc[r] = "safe_run" /\ wpc'[r] = "finally" /\ pc'[r] = pc[r])]_vars

\* the coordinator reads the result list after the signal, the worker thread
\* still returning
C18_Witness ==
    \E r \in Requests :
        /\ pc[r] = "get_result" /\ thread_done[r] /\ wpc[r] = "return"
        /\ node_results[r] = <<"ok">> /\ raise_next_tick[r] = None

\* C19: a started worker that has exited has set the completion signal,
\* whichever step of its body raised, so that a request that is not
\* interrupted never waits on a worker that is gone.
C19_ExitedWorkerSignalled ==
    \A r \in Requests :
        (intrLog[r] = <<>> /\ spawned[r] = 1 /\ wpc[r] = "exited") => thread_done[r]

\* positions of the try block before thread.start() has been called
PreparingInTry == TryBlock \ {"wait"}

\* C20: a request whose only interrupt arrived inside the try block before
\* thread.start() ends with the killed error and no worker started; with a
\* cancelable adapter cancel_open_connections was called once, otherwise it
\* was not called and only the unsupported-cancellation message was logged.
C20_PrepInterruptKilled ==
    \A r \in Requests :
        (Done(r) /\ Len(intrLog[r]) = 1 /\ intrLog[r][1] \in PreparingInTry)
            => /\ outcome[r] = Killed
               /\ spawned[r] = 0
               /\ IF cancelable
                  THEN cancelCalls[r] = 1
                  ELSE cancelCalls[r] = 0 /\ logged[r] = {"cancellation unsupported"}

====
